---- MODULE Spec2Model ----
(***************************************************************************)
(* A model of frb_codegen's parser (src/frb_codegen/src/parser.rs): one    *)
(* pass of Parser::parse over the public functions and structs of a file.  *)
(* The recursive descent is run as a machine with an explicit call stack,  *)
(* one frame per Rust call, so that the states inside a pass are visible.  *)
(* Strings are sequences of one-character strings, so that the regex of    *)
(* GenericCapture is modelled character by character. The doc comments     *)
(* that are copied onto the nodes (extract_comments) are left out.         *)
(***************************************************************************)
EXTENDS Naturals, Sequences, FiniteSets, TLC

VARIABLES
    src_fns,                        \* Vec<&ItemFn>: the public functions, in order
    src_struct_map,                 \* Parser.src_struct_map
    source_rust_content,            \* the raw text handed to parse()
    struct_pool,                    \* Parser.struct_pool
    parsing_or_parsed_struct_names, \* Parser.parsing_or_parsed_struct_names
    funcs,                          \* the ApiFuncs collected so far by Parser::parse
    stack,                          \* the call stack, innermost frame last
    ret,                            \* the value the last finished call returned
    result,                         \* what parse() has produced: Running, Ok(ApiFile) or Panic
    core_runs,                      \* history: how often parse_struct_core was entered, per name
    resolved                        \* history: <<ty, node>> for every parse_type call that returned

vars == <<src_fns, src_struct_map, source_rust_content, struct_pool,
          parsing_or_parsed_struct_names, funcs, stack, ret, result,
          core_runs, resolved>>

source_file == <<src_fns, src_struct_map, source_rust_content>>

-----------------------------------------------------------------------------
(* Bounds of the model *)

MaxDepth == 2      \* wrappers nested around an atom in a generated type expression
MaxParams == 3     \* parameters of a generated signature
MaxFns == 2        \* functions of a generated file
MaxFields == 2     \* fields of a generated struct

-----------------------------------------------------------------------------
(* Characters and identifiers *)

Letters ==
    {"a","b","c","d","e","f","g","h","i","j","k","l","m","n","o","p","q","r",
     "s","t","u","v","w","x","y","z",
     "A","B","C","D","E","F","G","H","I","J","K","L","M","N","O","P","Q","R",
     "S","T","U","V","W","X","Y","Z"}

Digits == {"0","1","2","3","4","5","6","7","8","9"}

\* the character class [a-zA-Z0-9_<>] of the capture group
GenericArgChars == Letters \cup Digits \cup {"_", "<", ">"}

s_i32 == <<"i","3","2">>
s_u8 == <<"u","8">>
s_String == <<"S","t","r","i","n","g">>
s_Vec == <<"V","e","c">>
s_Box == <<"B","o","x">>
s_Option == <<"O","p","t","i","o","n">>
s_Result == <<"R","e","s","u","l","t">>
s_StreamSink == <<"S","t","r","e","a","m","S","i","n","k">>
s_SyncReturn == <<"S","y","n","c","R","e","t","u","r","n">>
s_ZeroCopyBuffer == <<"Z","e","r","o","C","o","p","y","B","u","f","f","e","r">>
s_anyhow == <<"a","n","y","h","o","w">>
s_field == <<"f","i","e","l","d">>
s_A == <<"A">>
s_B == <<"B">>
s_E == <<"E">>
s_X == <<"X">>
s_f == <<"f">>
s_g == <<"g">>
s_x == <<"x">>
s_y == <<"y">>
t_lt == <<"<">>
t_gt == <<">">>
t_comma == <<",">>
t_colon2 == <<":",":">>

-----------------------------------------------------------------------------
(* Option<T> of the Rust code *)

None == [tag |-> "None"]
Some(v) == [tag |-> "Some", value |-> v]

-----------------------------------------------------------------------------
(* syn types are token sequences; quote! prints the tokens separated by    *)
(* spaces, and type_to_string removes the spaces again.                    *)

RECURSIVE quote(_)
quote(toks) ==
    IF toks = <<>> THEN <<>>
    ELSE IF Len(toks) = 1 THEN toks[1]
    ELSE toks[1] \o <<" ">> \o quote(Tail(toks))

replace_space(s) == SelectSeq(s, LAMBDA c : c # " ")

type_to_string(ty) == replace_space(quote(ty))

ident_to_string(ident) == ident

-----------------------------------------------------------------------------
(* GenericCapture: the regex ^[^<]*{cls_name}<([a-zA-Z0-9_<>]+)>$          *)
(* [^<]* cannot cross a '<', so cls_name must end right before the first   *)
(* '<' of s; the group is everything between that '<' and the final '>'.   *)

FirstLt(s) ==
    IF \E i \in 1..Len(s) : s[i] = "<"
    THEN CHOOSE i \in 1..Len(s) : s[i] = "<" /\ \A j \in 1..(i-1) : s[j] # "<"
    ELSE 0

captures(cls_name, s) ==
    LET k == FirstLt(s)
        n == Len(s)
        m == Len(cls_name)
    IN  IF /\ k > m
           /\ SubSeq(s, k - m, k - 1) = cls_name
           /\ n >= k + 2
           /\ s[n] = ">"
           /\ \A i \in (k+1)..(n-1) : s[i] \in GenericArgChars
        THEN Some(SubSeq(s, k + 1, n - 1))
        ELSE None

-----------------------------------------------------------------------------
(* The IR of crate::api_types, as parser.rs builds it *)

Primitive(primitive) == [tag |-> "Primitive", primitive |-> primitive]
Delegate_String == [tag |-> "Delegate", delegate |-> "String"]
Delegate_SyncReturnVecU8 == [tag |-> "Delegate", delegate |-> "SyncReturnVecU8"]
Delegate_ZeroCopyBufferVecPrimitive(primitive) ==
    [tag |-> "Delegate", delegate |-> "ZeroCopyBufferVecPrimitive", primitive |-> primitive]
PrimitiveList(primitive) == [tag |-> "PrimitiveList", primitive |-> primitive]
GeneralList(inner) == [tag |-> "GeneralList", inner |-> inner]
Boxed(exist_in_real_api, inner) ==
    [tag |-> "Boxed", exist_in_real_api |-> exist_in_real_api, inner |-> inner]
Optional(opt) == [tag |-> "Optional", representation |-> opt.representation, inner |-> opt.inner]
StructRef(name) == [tag |-> "StructRef", name |-> name]

\* ApiTypeOptional::new_prim, new_ptr: the nullable-primitive and the
\* nullable-pointer representation of an Optional
new_prim(prim) == [representation |-> "prim", inner |-> Primitive(prim)]
new_ptr(ptr) == [representation |-> "ptr", inner |-> ptr]

\* ApiTypePrimitive::try_from_rust_str: exact-name match on the scalar kinds
try_from_rust_str(s) ==
    IF s = s_i32 THEN Some("I32")
    ELSE IF s = s_u8 THEN Some("U8")
    ELSE None

ApiField(name, ty) == [name |-> name, ty |-> ty]
ApiStruct(name, fields, is_fields_named) ==
    [name |-> name, fields |-> fields, is_fields_named |-> is_fields_named]
ApiFunc(name, inputs, output, mode) ==
    [name |-> name, inputs |-> inputs, output |-> output, mode |-> mode]
ApiFile(fs, pool, has_executor) ==
    [funcs |-> fs, struct_pool |-> pool, has_executor |-> has_executor]

\* generator_rust::HANDLER_NAME, the reserved marker token
HANDLER_NAME ==
    <<"F","L","U","T","T","E","R","_","R","U","S","T","_",
      "B","R","I","D","G","E","_","H","A","N","D","L","E","R">>

\* str::contains
contains(s, sub) ==
    \E i \in 1..(Len(s) + 1) :
        /\ i + Len(sub) - 1 <= Len(s)
        /\ SubSeq(s, i, i + Len(sub) - 1) = sub

-----------------------------------------------------------------------------
(* The call stack *)

Top == stack[Len(stack)]

Running == result.tag = "Running" /\ stack # <<>>

Frame(fn, ty) == [fn |-> fn, ty |-> ty, pc |-> "start"]

\* the running call replaces its frame by cur and calls frame
Call(cur, frame) ==
    /\ stack' = Append([stack EXCEPT ![Len(stack)] = cur], frame)
    /\ UNCHANGED <<ret, result>>

\* the running call returns v to its caller
Return(v) ==
    /\ stack' = SubSeq(stack, 1, Len(stack) - 1)
    /\ ret' = v
    /\ UNCHANGED result

\* panic!: the pass unwinds, parse() returns nothing
Panic(msg) ==
    /\ result' = [tag |-> "Panic", msg |-> msg]
    /\ UNCHANGED <<stack, ret>>

-----------------------------------------------------------------------------
(* Parser::parse_function *)

\* mutant: the declared return type is read whatever the parameters were
output_is_none_always(output) == TRUE

\* line 96: the declared return type is read only when no StreamSink set the output
output_is_none(output) == output = None

\* mutant: the synchronous return is not told apart
mode_of_output_normal(output) == "Normal"

\* lines 107-113: Sync for the SyncReturn<Vec<u8>> delegate, else Normal
mode_of_output(output) ==
    IF output = Delegate_SyncReturnVecU8 THEN "Sync" ELSE "Normal"

\* lines 80-82: a StreamSink parameter sets output and mode, and is not an input
take_stream_sink(fr, inner) ==
    [fr EXCEPT !.output = Some(inner), !.mode = Some("Stream"), !.i = fr.i + 1]

\* mutant: the parameter is put in front of the inputs
push_input_front(fr, name, ty) ==
    [fr EXCEPT !.inputs = <<ApiField(name, ty)>> \o fr.inputs, !.i = fr.i + 1]

\* lines 84-89: any other parameter is pushed onto inputs
push_input(fr, name, ty) ==
    [fr EXCEPT !.inputs = Append(fr.inputs, ApiField(name, ty)), !.i = fr.i + 1]

\* the frame fr stands at the head of `for sig_input in &sig.inputs`, or behind it
parse_function_step(fr) ==
    LET func == src_fns[fr.func]
    IN  IF fr.i <= Len(func.inputs)
        THEN LET sig_input == func.inputs[fr.i]
             IN  IF sig_input.kind # "Typed"
                 THEN Panic("unexpected sig_input")
                 ELSE IF sig_input.pat # "Ident"
                 THEN Panic("unexpected pat_type")
                 ELSE Call([fr EXCEPT !.pc = "sink"],
                           Frame("try_parse_stream_sink", type_to_string(sig_input.ty)))
        ELSE IF output_is_none(fr.output)
        THEN IF func.output.kind = "Type"
             THEN LET inner == captures(s_Result, type_to_string(func.output.ty))
                  IN  IF inner # None
                      THEN Call([fr EXCEPT !.pc = "output"], Frame("parse_type", inner.value))
                      ELSE Panic("unsupported type_string")
             ELSE Panic("unsupported output")
        ELSE Return(ApiFunc(ident_to_string(func.ident), fr.inputs,
                            fr.output.value, fr.mode.value))

parse_function ==
    /\ Running
    /\ Top.fn = "parse_function"
    /\ LET sig_input == src_fns[Top.func].inputs[Top.i]
       IN  CASE Top.pc = "start" -> parse_function_step(Top)
             [] Top.pc = "sink" ->
                  IF ret # None
                  THEN parse_function_step(take_stream_sink(Top, ret.value))
                  ELSE Call([Top EXCEPT !.pc = "input"],
                            Frame("parse_type", type_to_string(sig_input.ty)))
             [] Top.pc = "input" ->
                  parse_function_step(push_input(Top, sig_input.ident, ret))
             [] Top.pc = "output" ->
                  Return(ApiFunc(ident_to_string(src_fns[Top.func].ident), Top.inputs,
                                 ret, mode_of_output(ret)))
    /\ UNCHANGED <<source_file, struct_pool, parsing_or_parsed_struct_names, funcs,
                   core_runs, resolved>>

-----------------------------------------------------------------------------
(* Parser::parse_type *)

\* lines 129-135: the or_else chain, in its order
or_else_next(pc) ==
    CASE pc = "start" -> "try_parse_api_type_delegate"
      [] pc = "try_parse_api_type_delegate" -> "try_parse_list"
      [] pc = "try_parse_list" -> "try_parse_box"
      [] pc = "try_parse_box" -> "try_parse_option"
      [] pc = "try_parse_option" -> "try_parse_struct"
      [] pc = "try_parse_struct" -> "unwrap_or_else"

\* parse_type(ty) returns node
ReturnType(ty, node) ==
    /\ Return(node)
    /\ resolved' = resolved \cup {<<ty, node>>}

parse_type ==
    /\ Running
    /\ Top.fn = "parse_type"
    /\ LET ty == Top.ty
           next == or_else_next(Top.pc)
       IN  IF Top.pc = "start" /\ try_from_rust_str(ty) # None
           THEN ReturnType(ty, Primitive(try_from_rust_str(ty).value))
           ELSE IF Top.pc # "start" /\ ret # None
           THEN ReturnType(ty, ret.value)
           ELSE IF next = "unwrap_or_else"
           THEN Panic("parse_type failed") /\ UNCHANGED resolved
           ELSE Call([Top EXCEPT !.pc = next], Frame(next, ty)) /\ UNCHANGED resolved
    /\ UNCHANGED <<source_file, struct_pool, parsing_or_parsed_struct_names, funcs, core_runs>>

-----------------------------------------------------------------------------
(* Parser::try_parse_stream_sink *)

try_parse_stream_sink ==
    /\ Running
    /\ Top.fn = "try_parse_stream_sink"
    /\ LET inner == captures(s_StreamSink, Top.ty)
       IN  IF Top.pc = "start"
           THEN IF inner # None
                THEN Call([Top EXCEPT !.pc = "inner"], Frame("parse_type", inner.value))
                ELSE Return(None)
           ELSE Return(Some(ret))
    /\ UNCHANGED <<source_file, struct_pool, parsing_or_parsed_struct_names, funcs,
                   core_runs, resolved>>

-----------------------------------------------------------------------------
(* Parser::try_parse_api_type_delegate *)

s_SyncReturnVecU8 == s_SyncReturn \o t_lt \o s_Vec \o t_lt \o s_u8 \o t_gt \o t_gt

\* lines 159-166: only a primitive list inside ZeroCopyBuffer makes a delegate
zero_copy_buffer_of(list) ==
    IF list # None /\ list.value.tag = "PrimitiveList"
    THEN Some(Delegate_ZeroCopyBufferVecPrimitive(list.value.primitive))
    ELSE None

try_parse_api_type_delegate ==
    /\ Running
    /\ Top.fn = "try_parse_api_type_delegate"
    /\ LET inner_type_str == captures(s_ZeroCopyBuffer, Top.ty)
       IN  IF Top.pc = "start"
           THEN IF Top.ty = s_SyncReturnVecU8 THEN Return(Some(Delegate_SyncReturnVecU8))
                ELSE IF Top.ty = s_String THEN Return(Some(Delegate_String))
                ELSE IF inner_type_str # None
                THEN Call([Top EXCEPT !.pc = "list"],
                          Frame("try_parse_list", inner_type_str.value))
                ELSE Return(None)
           ELSE Return(zero_copy_buffer_of(ret))
    /\ UNCHANGED <<source_file, struct_pool, parsing_or_parsed_struct_names, funcs,
                   core_runs, resolved>>

-----------------------------------------------------------------------------
(* Parser::try_parse_list *)

\* lines 179-182
list_of(inner) ==
    IF inner.tag = "Primitive" THEN PrimitiveList(inner.primitive) ELSE GeneralList(inner)

try_parse_list ==
    /\ Running
    /\ Top.fn = "try_parse_list"
    /\ LET inner_type_str == captures(s_Vec, Top.ty)
       IN  IF Top.pc = "start"
           THEN IF inner_type_str # None
                THEN Call([Top EXCEPT !.pc = "inner"], Frame("parse_type", inner_type_str.value))
                ELSE Return(None)
           ELSE Return(Some(list_of(ret)))
    /\ UNCHANGED <<source_file, struct_pool, parsing_or_parsed_struct_names, funcs,
                   core_runs, resolved>>

-----------------------------------------------------------------------------
(* Parser::try_parse_box *)

\* mutant: the Box the user wrote is marked as synthesized
box_of_synthesized(inner) == Boxed(FALSE, inner)

\* lines 194-197
box_of(inner) == Boxed(TRUE, inner)

try_parse_box ==
    /\ Running
    /\ Top.fn = "try_parse_box"
    /\ LET inner == captures(s_Box, Top.ty)
       IN  IF Top.pc = "start"
           THEN IF inner # None
                THEN Call([Top EXCEPT !.pc = "inner"], Frame("parse_type", inner.value))
                ELSE Return(None)
           ELSE Return(Some(box_of(ret)))
    /\ UNCHANGED <<source_file, struct_pool, parsing_or_parsed_struct_names, funcs,
                   core_runs, resolved>>

-----------------------------------------------------------------------------
(* Parser::try_parse_option *)

\* mutant: the inner expression is not looked at
is_nested_option_ignored(inner) == FALSE

\* lines 207-213: an Option whose inner expression is again an Option
is_nested_option(inner) == captures(s_Option, inner) # None

\* mutant: the struct is put into the Optional without a Box
option_of_unboxed(inner) ==
    CASE inner.tag = "Primitive" -> Optional(new_prim(inner.primitive))
      [] OTHER -> Optional(new_ptr(inner))

\* lines 214-223
option_of(inner) ==
    CASE inner.tag = "Primitive" -> Optional(new_prim(inner.primitive))
      [] inner.tag = "StructRef" -> Optional(new_ptr(Boxed(FALSE, inner)))
      [] OTHER -> Optional(new_ptr(inner))

try_parse_option ==
    /\ Running
    /\ Top.fn = "try_parse_option"
    /\ LET inner == captures(s_Option, Top.ty)
       IN  IF Top.pc = "start"
           THEN IF inner # None
                THEN IF is_nested_option(inner.value)
                     THEN Panic("Nested optionals without indirection are not supported")
                     ELSE Call([Top EXCEPT !.pc = "inner"], Frame("parse_type", inner.value))
                ELSE Return(None)
           ELSE Return(Some(option_of(ret)))
    /\ UNCHANGED <<source_file, struct_pool, parsing_or_parsed_struct_names, funcs,
                   core_runs, resolved>>

-----------------------------------------------------------------------------
(* Parser::try_parse_struct *)

\* line 228
is_src_struct(ty) == ty \in DOMAIN src_struct_map

\* mutant: the memo of line 232 is not consulted
not_parsing_or_parsed_forgetful(names, ty) == TRUE

\* line 232: the struct is neither parsed nor being parsed
not_parsing_or_parsed(names, ty) == ty \notin names

\* mutant: the name is not recorded before its fields are resolved
insert_name_skipped(names, ty) == names

\* line 233
insert_name(names, ty) == names \cup {ty}

\* mutant: the resolved struct is not put into the pool
pool_insert_lost(pool, ty, api_struct) == pool

\* line 235: HashMap::insert
pool_insert(pool, ty, api_struct) ==
    [n \in DOMAIN pool \cup {ty} |-> IF n = ty THEN api_struct ELSE pool[n]]

try_parse_struct ==
    /\ Running
    /\ Top.fn = "try_parse_struct"
    /\ LET ty == Top.ty
       IN  IF Top.pc = "start"
           THEN IF ~is_src_struct(ty)
                THEN /\ Return(None)
                     /\ UNCHANGED <<struct_pool, parsing_or_parsed_struct_names>>
                ELSE IF not_parsing_or_parsed(parsing_or_parsed_struct_names, ty)
                THEN /\ parsing_or_parsed_struct_names' =
                            insert_name(parsing_or_parsed_struct_names, ty)
                     /\ Call([Top EXCEPT !.pc = "core"],
                             [fn |-> "parse_struct_core", ty |-> ty, pc |-> "start",
                              fields |-> <<>>])
                     /\ UNCHANGED struct_pool
                ELSE /\ Return(Some(StructRef(ty)))
                     /\ UNCHANGED <<struct_pool, parsing_or_parsed_struct_names>>
           ELSE /\ struct_pool' = pool_insert(struct_pool, ty, ret)
                /\ Return(Some(StructRef(ty)))
                /\ UNCHANGED parsing_or_parsed_struct_names
    /\ UNCHANGED <<source_file, funcs, core_runs, resolved>>

-----------------------------------------------------------------------------
(* Parser::parse_struct_core *)

RECURSIVE decimal(_)
decimal(n) ==
    LET digit == <<"0","1","2","3","4","5","6","7","8","9">>[(n % 10) + 1]
    IN  IF n < 10 THEN <<digit>> ELSE decimal(n \div 10) \o <<digit>>

\* lines 254-257: the field's own name, or field{idx} for a positional field
field_name(field, idx) ==
    IF field.ident # None THEN ident_to_string(field.ident.value)
    ELSE s_field \o decimal(idx)

\* mutant: a unit struct passes as a struct without fields
fields_supported_any(fields) == TRUE

\* lines 247-251: named and unnamed fields are read, a unit struct is not
fields_supported(fields) == fields.kind \in {"Named", "Unnamed"}

\* the frame fr stands at the head of the loop over the fields, or behind it
parse_struct_core_step(fr) ==
    LET item_struct == src_struct_map[fr.ty]
        struct_fields == item_struct.fields.list
        idx == Len(fr.fields)
    IN  IF idx < Len(struct_fields)
        THEN Call([fr EXCEPT !.pc = "field"],
                  Frame("parse_type", type_to_string(struct_fields[idx + 1].ty)))
        ELSE Return(ApiStruct(ident_to_string(item_struct.ident), fr.fields,
                              item_struct.fields.kind = "Named"))

parse_struct_core ==
    /\ Running
    /\ Top.fn = "parse_struct_core"
    /\ LET item_struct == src_struct_map[Top.ty]
           idx == Len(Top.fields)
           field == item_struct.fields.list[idx + 1]
       IN  IF Top.pc = "start"
           THEN /\ core_runs' = [core_runs EXCEPT ![Top.ty] = @ + 1]
                /\ IF fields_supported(item_struct.fields)
                   THEN parse_struct_core_step(Top)
                   ELSE Panic("unsupported type")
           ELSE /\ parse_struct_core_step(
                      [Top EXCEPT !.fields = Append(@, ApiField(field_name(field, idx), ret))])
                /\ UNCHANGED core_runs
    /\ UNCHANGED <<source_file, struct_pool, parsing_or_parsed_struct_names, funcs, resolved>>

-----------------------------------------------------------------------------
(* Parser::parse *)

parse ==
    /\ Running
    /\ Top.fn = "parse"
    /\ LET fs == IF Top.pc = "collect" THEN Append(funcs, ret) ELSE funcs
           i == Len(fs) + 1
       IN  /\ funcs' = fs
           /\ IF i <= Len(src_fns)
              THEN Call([Top EXCEPT !.pc = "collect"],
                        [fn |-> "parse_function", pc |-> "start", func |-> i, i |-> 1,
                         inputs |-> <<>>, output |-> None, mode |-> None])
              ELSE /\ stack' = <<>>
                   /\ result' = [tag |-> "Ok",
                                 file |-> ApiFile(fs, struct_pool,
                                                  contains(source_rust_content, HANDLER_NAME))]
                   /\ UNCHANGED ret
    /\ UNCHANGED <<source_file, struct_pool, parsing_or_parsed_struct_names,
                   core_runs, resolved>>

-----------------------------------------------------------------------------
(* extract_items_from_file: the public functions in order, and the public  *)
(* structs by name (HashMap::insert: a later item replaces an earlier one) *)

extract_items_from_file(file) ==
    LET pub_structs == {i \in 1..Len(file) :
                           file[i].item = "Struct" /\ file[i].vis = "Public"}
        names == {file[i].ident : i \in pub_structs}
        last(n) == CHOOSE i \in pub_structs :
                       /\ file[i].ident = n
                       /\ \A j \in pub_structs : file[j].ident = n => j <= i
    IN  <<SelectSeq(file, LAMBDA it : it.item = "Fn" /\ it.vis = "Public"),
          [n \in names |-> file[last(n)]]>>

-----------------------------------------------------------------------------
(* The source files the pass is run on *)

Seqs(S, n) == UNION {[1..k -> S] : k \in 0..n}

\* the tokens of W<inner>
Gen(w, inner) == <<w, t_lt>> \o inner \o <<t_gt>>

ty_i32 == <<s_i32>>
ty_u8 == <<s_u8>>
ty_String == <<s_String>>
ty_A == <<s_A>>
ty_B == <<s_B>>
ty_X == <<s_X>>
ty_SyncReturnVecU8 == Gen(s_SyncReturn, Gen(s_Vec, ty_u8))

Atoms == {ty_i32, ty_u8, ty_String, ty_A, ty_X, ty_SyncReturnVecU8}

Wrappers == {s_Vec, s_Box, s_Option, s_ZeroCopyBuffer}

RECURSIVE TypesUpTo(_)
TypesUpTo(d) ==
    IF d = 0 THEN Atoms
    ELSE TypesUpTo(d - 1) \cup {Gen(w, t) : w \in Wrappers, t \in TypesUpTo(d - 1)}

\* some deeper expressions: Option next to Option, with and without a Box between
DeepTypes ==
    {Gen(s_Vec, Gen(s_Option, Gen(s_Option, ty_i32))),
     Gen(s_Option, Gen(s_Box, Gen(s_Option, ty_A))),
     Gen(s_Option, Gen(s_Vec, Gen(s_Option, ty_A))),
     <<s_anyhow, t_colon2>> \o Gen(s_Option, Gen(s_Option, ty_i32))}

lower == <<"a","b","c","d","e","f","g","h","i","j","k","l","m","n","o","p","q","r",
           "s","t","u","v","w","x","y","z">>

\* the identifier at position i: a, b, c, ...
NameAt(i) == <<lower[i]>>

Typed(ident, ty) == [kind |-> "Typed", pat |-> "Ident", ident |-> ident, ty |-> ty]
\* a parameter bound by a pattern that is no identifier, as in (x, y): A
TypedByPattern(ty) == [kind |-> "Typed", pat |-> "Tuple", ty |-> ty]
Receiver == [kind |-> "Receiver"]

ReturnDefault == [kind |-> "Default"]
ReturnOf(ty) == [kind |-> "Type", ty |-> ty]

ItemFn(vis, ident, args, output) ==
    [item |-> "Fn", vis |-> vis, ident |-> ident, inputs |-> args, output |-> output]

Field(ident, ty) == [ident |-> ident, ty |-> ty]

ItemStruct(vis, ident, kind, list) ==
    [item |-> "Struct", vis |-> vis, ident |-> ident,
     fields |-> [kind |-> kind, list |-> list]]

NamedFields(tys) == [i \in 1..Len(tys) |-> Field(Some(NameAt(23 + i)), tys[i])]
UnnamedFields(tys) == [i \in 1..Len(tys) |-> Field(None, tys[i])]

\* pub struct A { x: i32, y: Box<A> }
StructsSelfBox ==
    <<ItemStruct("Public", s_A, "Named", NamedFields(<<ty_i32, Gen(s_Box, ty_A)>>))>>
\* pub struct A { x: Box<B> }  pub struct B { x: Box<A>, y: Vec<u8> }
StructsMutualBox ==
    <<ItemStruct("Public", s_A, "Named", NamedFields(<<Gen(s_Box, ty_B)>>)),
      ItemStruct("Public", s_B, "Named", NamedFields(<<Gen(s_Box, ty_A), Gen(s_Vec, ty_u8)>>))>>
\* pub struct A(String, Option<B>);  pub struct B;
StructsTupleUnit ==
    <<ItemStruct("Public", s_A, "Unnamed", UnnamedFields(<<ty_String, Gen(s_Option, ty_B)>>)),
      ItemStruct("Public", s_B, "Unit", <<>>)>>
\* struct A { x: i32 } (private)  pub struct B { x: Vec<B> }
StructsPrivate ==
    <<ItemStruct("Inherited", s_A, "Named", NamedFields(<<ty_i32>>)),
      ItemStruct("Public", s_B, "Named", NamedFields(<<Gen(s_Vec, ty_B)>>))>>

Contents == {<<>>, <<"/","/"," ">> \o HANDLER_NAME}

\* one function f(a: T) -> Result<String>, T any type expression of the depth
TypeFiles ==
    {structs \o <<ItemFn("Public", s_f, <<Typed(NameAt(1), t)>>,
                         ReturnOf(Gen(s_Result, ty_String)))>> :
        structs \in {StructsSelfBox, StructsTupleUnit, StructsPrivate},
        t \in TypesUpTo(MaxDepth) \cup DeepTypes}

\* one function, any signature over the parameter and return choices
ParamChoices ==
    {Typed(s_x, ty_i32), Typed(s_x, ty_A), Typed(s_x, Gen(s_StreamSink, ty_i32)),
     Typed(s_x, Gen(s_StreamSink, ty_SyncReturnVecU8)), TypedByPattern(ty_i32)}

ReturnChoices ==
    {ReturnDefault,
     ReturnOf(ty_String),
     ReturnOf(Gen(s_Result, ty_String)),
     ReturnOf(<<s_Result, t_lt, s_String, t_comma, s_E, t_gt>>),
     ReturnOf(<<s_anyhow, t_colon2>> \o Gen(s_Result, ty_SyncReturnVecU8)),
     ReturnOf(Gen(s_Result, ty_X))}

\* the parameters get their names from their positions: a, b, c, ...
Positioned(args) ==
    [i \in 1..Len(args) |->
        IF args[i].kind = "Typed" /\ args[i].pat = "Ident"
        THEN [args[i] EXCEPT !.ident = NameAt(i)] ELSE args[i]]

SigFiles ==
    {StructsSelfBox \o <<ItemFn("Public", s_f, Positioned(args), output)>> :
        args \in Seqs(ParamChoices, MaxParams), output \in ReturnChoices}

\* several functions over the same structs
FnChoices ==
    {ItemFn("Public", s_f, <<Typed(s_x, ty_A)>>, ReturnOf(Gen(s_Result, ty_A))),
     ItemFn("Public", s_f, <<Typed(s_x, ty_B)>>, ReturnOf(Gen(s_Result, ty_String))),
     ItemFn("Public", s_f, <<Typed(s_x, Gen(s_Box, ty_A)), Typed(s_y, ty_A)>>,
            ReturnOf(Gen(s_Result, Gen(s_Vec, ty_A)))),
     ItemFn("Public", s_f, <<Typed(s_x, Gen(s_StreamSink, ty_A))>>, ReturnDefault),
     ItemFn("Public", s_f, <<Typed(s_x, Gen(s_Option, ty_A))>>,
            ReturnOf(Gen(s_Result, ty_SyncReturnVecU8))),
     ItemFn("Public", s_f, <<Receiver>>, ReturnOf(Gen(s_Result, ty_i32))),
     ItemFn("Inherited", s_f, <<Typed(s_x, ty_X)>>, ReturnDefault),
     ItemFn("Public", s_f, <<>>, ReturnOf(Gen(s_Result, ty_i32)))}

\* the functions get their names from their positions
Named(fns) == [i \in 1..Len(fns) |-> [fns[i] EXCEPT !.ident = NameAt(5 + i)]]

FnFiles ==
    {structs \o Named(fns) :
        structs \in {StructsSelfBox, StructsMutualBox, StructsTupleUnit, StructsPrivate},
        fns \in Seqs(FnChoices, MaxFns)}

\* struct A with any fields over the field types, beside a struct B
FieldTypes ==
    {ty_i32, ty_A, ty_B, Gen(s_Box, ty_A), Gen(s_Box, ty_B), Gen(s_Vec, ty_A)}

BodiesOfA ==
    {<<"Unit", <<>>>>}
    \cup {<<"Named", NamedFields(tys)>> : tys \in Seqs(FieldTypes, MaxFields) \ {<<>>}}
    \cup {<<"Unnamed", UnnamedFields(tys)>> : tys \in Seqs(FieldTypes, MaxFields) \ {<<>>}}

BodiesOfB ==
    {<<"Unit", <<>>>>,
     <<"Named", NamedFields(<<Gen(s_Box, ty_A)>>)>>,
     <<"Named", NamedFields(<<ty_String>>)>>,
     <<"Unnamed", UnnamedFields(<<ty_A>>)>>}

StructFiles ==
    {<<ItemStruct("Public", s_A, a[1], a[2]), ItemStruct("Public", s_B, b[1], b[2]),
       ItemFn("Public", s_f, <<Typed(s_x, t)>>, ReturnOf(Gen(s_Result, ty_String)))>> :
        a \in BodiesOfA, b \in BodiesOfB, t \in {ty_A}}

\* the marker token is looked for in the text of the first family only
Sources ==
    (TypeFiles \X Contents) \cup ((SigFiles \cup FnFiles \cup StructFiles) \X {<<>>})

-----------------------------------------------------------------------------
(* parse(source_rust_content, file): the Parser as constructed, about to   *)
(* run Parser::parse                                                       *)

Start(source) ==
    LET items == extract_items_from_file(source[1])
    IN  /\ src_fns = items[1]
        /\ src_struct_map = items[2]
        /\ source_rust_content = source[2]
        /\ struct_pool = <<>>
        /\ parsing_or_parsed_struct_names = {}
        /\ funcs = <<>>
        /\ stack = <<[fn |-> "parse", pc |-> "start"]>>
        /\ ret = None
        /\ result = [tag |-> "Running"]
        /\ core_runs = [n \in DOMAIN items[2] |-> 0]
        /\ resolved = {}

Init == \E source \in Sources : Start(source)

\* the passes over the generated structs only
InitStructs == \E source \in StructFiles \X {<<>>} : Start(source)

Next ==
    \/ parse
    \/ parse_function
    \/ parse_type
    \/ try_parse_stream_sink
    \/ try_parse_api_type_delegate
    \/ try_parse_list
    \/ try_parse_box
    \/ try_parse_option
    \/ try_parse_struct
    \/ parse_struct_core

Spec == Init /\ [][Next]_vars

\* the pass is one thread that runs until it returns or panics
FairStructSpec == InitStructs /\ [][Next]_vars /\ WF_vars(Next)

-----------------------------------------------------------------------------
(* Notions the properties are stated with *)

\* the characters of W<s>
GenStr(w, s) == w \o t_lt \o s \o t_gt

\* a type node and the nodes inside it
RECURSIVE Nodes(_)
Nodes(t) ==
    {t} \cup (IF t.tag \in {"GeneralList", "Boxed", "Optional"} THEN Nodes(t.inner) ELSE {})

StructRefNames(t) == {n.name : n \in {m \in Nodes(t) : m.tag = "StructRef"}}

\* the node parse_type returned for the type string s in this pass
WasResolved(s) == \E p \in resolved : p[1] = s
Res(s) == (CHOOSE p \in resolved : p[1] = s)[2]

\* the positions of the parameters of func that are shaped StreamSink<T>
SinkParams(func) ==
    {i \in 1..Len(func.inputs) :
        /\ func.inputs[i].kind = "Typed"
        /\ captures(s_StreamSink, type_to_string(func.inputs[i].ty)) # None}

SinkInner(func, i) == captures(s_StreamSink, type_to_string(func.inputs[i].ty)).value

\* the positions of the other parameters, in declaration order
RECURSIVE OtherParams(_, _)
OtherParams(func, i) ==
    IF i > Len(func.inputs) THEN <<>>
    ELSE (IF i \in SinkParams(func) THEN <<>> ELSE <<i>>) \o OtherParams(func, i + 1)

Max(S) == CHOOSE x \in S : \A y \in S : y <= x

\* the struct name is being resolved by a parse_struct_core call below frame i
InProgressBelow(name, i) ==
    \E k \in 1..(i - 1) : stack[k].fn = "parse_struct_core" /\ stack[k].ty = name

\* the type nodes of a document
FieldNodes(fields) == UNION {Nodes(fields[i].ty) : i \in 1..Len(fields)}

FileNodes(file) ==
    UNION {Nodes(file.funcs[k].output) \cup FieldNodes(file.funcs[k].inputs) :
               k \in 1..Len(file.funcs)}
    \cup UNION {FieldNodes(file.struct_pool[n].fields) : n \in DOMAIN file.struct_pool}

\* the type nodes produced so far in the pass
RetNodes ==
    IF "tag" \notin DOMAIN ret \/ ret.tag = "None" THEN {}
    ELSE IF ret.tag = "Some" THEN Nodes(ret.value)
    ELSE Nodes(ret)

ProducedNodes == RetNodes \cup UNION {Nodes(p[2]) : p \in resolved}

-----------------------------------------------------------------------------
(* C1: within one pass, however often a public struct name is mentioned    *)
(* (across functions and inside one), parse_struct_core runs at most once  *)
(* for it, every mention resolves to the same StructRef(name), and the     *)
(* returned pool holds the one entry built by that run.                    *)

C1_ResolvedOnce ==
    /\ \A n \in DOMAIN core_runs : core_runs[n] <= 1
    /\ \A p \in resolved : p[1] \in DOMAIN src_struct_map => p[2] = StructRef(p[1])
    /\ result.tag = "Ok" =>
           \A n \in DOMAIN src_struct_map :
               WasResolved(n) =>
                   /\ core_runs[n] = 1
                   /\ n \in DOMAIN result.file.struct_pool
                   /\ result.file.struct_pool[n].name = n

\* two functions mention A, the first one twice, and the pass returned
C1_Witness ==
    /\ result.tag = "Ok"
    /\ Len(funcs) = 2
    /\ Len(funcs[1].inputs) = 2
    /\ funcs[1].inputs[1].ty = Boxed(TRUE, StructRef(s_A))
    /\ funcs[1].inputs[2].ty = StructRef(s_A)
    /\ funcs[2].inputs = <<ApiField(s_x, StructRef(s_A))>>
    /\ core_runs[s_A] = 1

-----------------------------------------------------------------------------
(* C10: every StructRef produced names a struct that is a key of the pool  *)
(* or is in parsing_or_parsed_struct_names; the pool's keys are always     *)
(* among those names; when the pass returns the two sets are equal, and    *)
(* every StructRef of the document names a key of the returned pool.       *)

C10_StructRefsRegistered ==
    /\ DOMAIN struct_pool \subseteq parsing_or_parsed_struct_names
    /\ \A t \in ProducedNodes :
           t.tag = "StructRef" =>
               t.name \in DOMAIN struct_pool \cup parsing_or_parsed_struct_names
    /\ result.tag = "Ok" =>
           /\ DOMAIN result.file.struct_pool = parsing_or_parsed_struct_names
           /\ \A t \in FileNodes(result.file) :
                  t.tag = "StructRef" => t.name \in DOMAIN result.file.struct_pool

\* a StructRef exists for a struct that is still being resolved
C10_Witness ==
    /\ result.tag = "Running"
    /\ \E p \in resolved :
           /\ p[2].tag = "StructRef"
           /\ p[2].name \in parsing_or_parsed_struct_names \ DOMAIN struct_pool

-----------------------------------------------------------------------------
(* C9 as claimed: struct resolution is requested for a name that is being  *)
(* resolved on the call stack only beneath a Boxed indirection, and a      *)
(* field typed as the struct itself, or as a list of it, is not resolved   *)
(* to a StructRef of the name in progress.                                 *)

C9_OnlyBeneathBox ==
    /\ \A i \in 1..Len(stack) :
           (stack[i].fn = "try_parse_struct" /\ InProgressBelow(stack[i].ty, i)) =>
               \E k \in 1..(i - 1), j \in 1..(i - 1) :
                   /\ stack[k].fn = "parse_struct_core"
                   /\ stack[k].ty = stack[i].ty
                   /\ k < j
                   /\ stack[j].fn = "try_parse_box"
    /\ \A n \in DOMAIN struct_pool :
           \A i \in 1..Len(struct_pool[n].fields) :
               struct_pool[n].fields[i].ty
                   \notin {StructRef(n), GeneralList(StructRef(n))}

(* C9 as amended: struct resolution may be requested for a name that is    *)
(* being resolved on the call stack beneath a Box, beneath a Vec or with   *)
(* no wrapper at all; such a request never enters parse_struct_core again  *)
(* (no name is resolved twice on the stack), and the field is resolved to  *)
(* the StructRef of the name in progress.                                  *)

C9_NoReentry ==
    /\ \A i \in 1..Len(stack) :
           stack[i].fn = "parse_struct_core" => ~InProgressBelow(stack[i].ty, i)
    /\ \A i \in 1..Len(stack) :
           (stack[i].fn = "try_parse_struct" /\ InProgressBelow(stack[i].ty, i)) =>
               stack[i].pc = "start"
    /\ \A n \in DOMAIN struct_pool :
           \A i \in 1..Len(struct_pool[n].fields) :
               LET field_type_str == type_to_string(src_struct_map[n].fields.list[i].ty)
                   field_type == struct_pool[n].fields[i].ty
               IN  /\ field_type_str = n => field_type = StructRef(n)
                   /\ field_type_str = GenStr(s_Vec, n) =>
                          field_type = GeneralList(StructRef(n))
                   /\ field_type_str = GenStr(s_Box, n) =>
                          field_type = Boxed(TRUE, StructRef(n))

\* a returned pool whose struct A has a field A and a field Vec<A>
C9_Witness ==
    /\ result.tag = "Ok"
    /\ s_A \in DOMAIN struct_pool
    /\ Len(struct_pool[s_A].fields) = 2
    /\ struct_pool[s_A].fields[1].ty = StructRef(s_A)
    /\ struct_pool[s_A].fields[2].ty = GeneralList(StructRef(s_A))

-----------------------------------------------------------------------------
\* in a returned pool every struct reached has its entry, with all its fields, and
\* a field declared Box<S> of a public struct S is Boxed(TRUE, StructRef(S))
BoxedFieldsResolved ==
    result.tag = "Ok" =>
        \A n \in parsing_or_parsed_struct_names :
            /\ n \in DOMAIN result.file.struct_pool
            /\ Len(result.file.struct_pool[n].fields) = Len(src_struct_map[n].fields.list)
            /\ \A i \in 1..Len(src_struct_map[n].fields.list), m \in DOMAIN src_struct_map :
                   type_to_string(src_struct_map[n].fields.list[i].ty) = GenStr(s_Box, m) =>
                       result.file.struct_pool[n].fields[i].ty = Boxed(TRUE, StructRef(m))

(* C2: for structs that refer to themselves or to each other through Box,  *)
(* the pass terminates, and the returned pool holds an entry for every     *)
(* struct reached, whose field Box<S> is Boxed(TRUE, StructRef(S)).        *)

C2_BoxCyclesTerminate ==
    /\ <>(result.tag # "Running")
    /\ []BoxedFieldsResolved

\* A holds Box<A> and Box<B>, B holds Box<A>, and the pass returned
C2_Witness ==
    /\ result.tag = "Ok"
    /\ {s_A, s_B} \subseteq DOMAIN result.file.struct_pool
    /\ Len(result.file.struct_pool[s_A].fields) = 2
    /\ result.file.struct_pool[s_A].fields[1].ty = Boxed(TRUE, StructRef(s_A))
    /\ result.file.struct_pool[s_A].fields[2].ty = Boxed(TRUE, StructRef(s_B))
    /\ result.file.struct_pool[s_B].fields[1].ty = Boxed(TRUE, StructRef(s_A))

-----------------------------------------------------------------------------
(* What a finished function node must look like, given its declaration *)

\* the inputs of node f are the parameters of func at the positions, in order
InputsAre(f, func, positions) ==
    /\ Len(f.inputs) = Len(positions)
    /\ \A j \in 1..Len(positions) :
           LET sig_input == func.inputs[positions[j]]
           IN  /\ f.inputs[j].name = sig_input.ident
               /\ WasResolved(type_to_string(sig_input.ty))
               /\ f.inputs[j].ty = Res(type_to_string(sig_input.ty))

\* the function the pass is working on, when it is not finished
CurrentFn == Len(funcs) + 1

s_twoArgResult == s_Result \o t_lt \o s_String \o t_comma \o s_E \o t_gt

-----------------------------------------------------------------------------
(* C3 as claimed: for every parameter shaped StreamSink<T> of a function,  *)
(* the node has mode Stream, its output is the resolution of T, and that   *)
(* parameter is absent from the inputs while all other parameters appear   *)
(* in declaration order.                                                   *)

C3_EverySinkIsTheOutput ==
    \A k \in 1..Len(funcs) :
        \A i \in SinkParams(src_fns[k]) :
            /\ funcs[k].mode = "Stream"
            /\ funcs[k].output = Res(SinkInner(src_fns[k], i))
            /\ Len(funcs[k].inputs) = Len(src_fns[k].inputs) - 1

(* C3 as amended: a function with one or more StreamSink<T> parameters     *)
(* gets mode Stream, its output is the resolution of T of the last such    *)
(* parameter, no such parameter is among the inputs while all other        *)
(* parameters appear in declaration order, and the declared return type    *)
(* is not consulted: no return type, absent or not Result-shaped, makes    *)
(* the function fail.                                                      *)

C3_StreamSink ==
    /\ \A k \in 1..Len(funcs) :
           SinkParams(src_fns[k]) # {} =>
               /\ funcs[k].mode = "Stream"
               /\ WasResolved(SinkInner(src_fns[k], Max(SinkParams(src_fns[k]))))
               /\ funcs[k].output = Res(SinkInner(src_fns[k], Max(SinkParams(src_fns[k]))))
               /\ InputsAre(funcs[k], src_fns[k], OtherParams(src_fns[k], 1))
    /\ (result.tag = "Panic" /\ result.msg \in {"unsupported output", "unsupported type_string"})
           => SinkParams(src_fns[CurrentFn]) = {}

\* f(a: i32, b: StreamSink<i32>, c: A) with no return type has been resolved
C3_Witness ==
    /\ Len(funcs) = 1
    /\ Len(src_fns[1].inputs) = 3
    /\ SinkParams(src_fns[1]) = {2}
    /\ src_fns[1].output = ReturnDefault
    /\ funcs[1] = ApiFunc(s_f, <<ApiField(NameAt(1), Primitive("I32")),
                                 ApiField(NameAt(3), StructRef(s_A))>>,
                          Primitive("I32"), "Stream")

-----------------------------------------------------------------------------
(* C4 as claimed: a function without StreamSink parameter whose return     *)
(* type is written Result<String, E> is resolved; the pass does not        *)
(* reject the return type.                                                 *)

C4_TwoArgumentResultResolves ==
    ~ /\ result.tag = "Panic"
      /\ result.msg = "unsupported type_string"
      /\ SinkParams(src_fns[CurrentFn]) = {}
      /\ type_to_string(src_fns[CurrentFn].output.ty) = s_twoArgResult

(* C4 as amended: a function without StreamSink parameter whose return     *)
(* type is the Result wrapper written with the success payload as its only *)
(* type argument, as in name(a: i32) -> Result<String>, is resolved to     *)
(* mode Normal (Sync for the SyncReturn<Vec<u8>> payload), the resolution  *)
(* of the payload as output (Delegate(String) for String) and the          *)
(* parameters in order as inputs (a of type Primitive(i32)); a return type *)
(* written with a second type argument, Result<String, E>, is rejected.    *)

C4_ResultPayload ==
    /\ \A k \in 1..Len(funcs) :
           SinkParams(src_fns[k]) = {} =>
               LET func == src_fns[k]
                   payload == captures(s_Result, type_to_string(func.output.ty))
               IN  /\ func.output.kind = "Type"
                   /\ payload # None
                   /\ type_to_string(func.output.ty) # s_twoArgResult
                   /\ WasResolved(payload.value)
                   /\ funcs[k].output = Res(payload.value)
                   /\ payload.value = s_String =>
                          funcs[k].output = Delegate_String /\ funcs[k].mode = "Normal"
                   /\ payload.value # s_SyncReturnVecU8 => funcs[k].mode = "Normal"
                   /\ InputsAre(funcs[k], func, OtherParams(func, 1))
                   /\ \A i \in 1..Len(func.inputs) :
                          type_to_string(func.inputs[i].ty) = s_i32 =>
                              funcs[k].inputs[i] = ApiField(func.inputs[i].ident, Primitive("I32"))
    /\ \A k \in 1..Len(src_fns) :
           (/\ k = CurrentFn
            /\ src_fns[k].output.kind = "Type"
            /\ type_to_string(src_fns[k].output.ty) = GenStr(s_Result, s_String)
            /\ \A i \in 1..Len(src_fns[k].inputs) :
                   /\ src_fns[k].inputs[i].kind = "Typed"
                   /\ src_fns[k].inputs[i].pat = "Ident"
                   /\ type_to_string(src_fns[k].inputs[i].ty) = s_i32)
               => result.tag = "Running"

\* f(a: i32) -> Result<String> has been resolved
C4_Witness ==
    /\ Len(funcs) = 1
    /\ Len(src_fns[1].inputs) = 1
    /\ type_to_string(src_fns[1].inputs[1].ty) = s_i32
    /\ type_to_string(src_fns[1].output.ty) = GenStr(s_Result, s_String)
    /\ funcs[1] = ApiFunc(s_f, <<ApiField(NameAt(1), Primitive("I32"))>>,
                          Delegate_String, "Normal")

-----------------------------------------------------------------------------
(* C5: every function node has one mode: Stream exactly when a parameter   *)
(* is shaped StreamSink<T>; otherwise Sync when the payload of the Result  *)
(* return type is SyncReturn<Vec<u8>>, and Normal in every other case. A   *)
(* function with a StreamSink parameter is never Sync.                     *)

C5_Mode ==
    \A k \in 1..Len(funcs) :
        LET func == src_fns[k]
            payload == captures(s_Result, type_to_string(func.output.ty))
        IN  /\ funcs[k].mode \in {"Normal", "Sync", "Stream"}
            /\ funcs[k].mode = "Stream" <=> SinkParams(func) # {}
            /\ SinkParams(func) = {} =>
                   /\ funcs[k].mode = "Sync" <=> payload.value = s_SyncReturnVecU8
                   /\ funcs[k].mode = "Sync" <=> funcs[k].output = Delegate_SyncReturnVecU8
                   /\ funcs[k].mode = "Normal" <=> payload.value # s_SyncReturnVecU8

\* a StreamSink<SyncReturn<Vec<u8>>> parameter: the output is the delegate, the mode Stream
C5_Witness ==
    /\ Len(funcs) = 1
    /\ SinkParams(src_fns[1]) # {}
    /\ funcs[1].output = Delegate_SyncReturnVecU8
    /\ funcs[1].mode = "Stream"

-----------------------------------------------------------------------------
(* C6: no type expression in which Option directly wraps Option is ever    *)
(* resolved, at the top or inside other wrappers: the pass panics instead; *)
(* and no node produced is an Optional whose content is an Optional.       *)

s_OptionOption == s_Option \o t_lt \o s_Option \o t_lt

C6_NoNestedOptional ==
    /\ \A p \in resolved : ~contains(p[1], s_OptionOption)
    /\ \A t \in ProducedNodes : t.tag = "Optional" => t.inner.tag # "Optional"
    /\ result.tag = "Ok" =>
           \A k \in 1..Len(src_fns) : \A i \in 1..Len(src_fns[k].inputs) :
               ~contains(type_to_string(src_fns[k].inputs[i].ty), s_OptionOption)

\* Vec<Option<Option<i32>>>: the pass has panicked inside the list
C6_Witness ==
    /\ result.tag = "Panic"
    /\ result.msg = "Nested optionals without indirection are not supported"
    /\ Top.fn = "try_parse_option"
    /\ \E i \in 1..Len(stack) : stack[i].fn = "try_parse_list"

-----------------------------------------------------------------------------
(* C7: Option<S> of a public struct S resolves to Optional over            *)
(* Boxed(StructRef(S), FALSE) and Box<S> to Boxed(StructRef(S), TRUE); a   *)
(* Boxed with flag FALSE occurs only as the content of an Optional, with a *)
(* StructRef inside; an Option over a type that is neither primitive nor   *)
(* struct wraps the resolved type itself.                                  *)

C7_OptionAndBox ==
    /\ \A p \in resolved, n \in DOMAIN src_struct_map :
           /\ p[1] = GenStr(s_Option, n) =>
                  /\ p[2].tag = "Optional"
                  /\ p[2].inner = Boxed(FALSE, StructRef(n))
           /\ p[1] = GenStr(s_Box, n) => p[2] = Boxed(TRUE, StructRef(n))
    /\ \A p \in resolved :
           /\ ~(p[2].tag = "Boxed" /\ ~p[2].exist_in_real_api)
           /\ \A t \in Nodes(p[2]) :
                  (t.tag \in {"GeneralList", "Boxed", "Optional"}
                      /\ t.inner.tag = "Boxed" /\ ~t.inner.exist_in_real_api)
                      => t.tag = "Optional" /\ t.inner.inner.tag = "StructRef"
    /\ \A p \in resolved, q \in resolved :
           (p[1] = GenStr(s_Option, q[1]) /\ q[2].tag \notin {"Primitive", "StructRef"})
               => p[2].tag = "Optional" /\ p[2].inner = q[2]

\* Option<A> and Box<A> have both been resolved in one pass
C7_Witness ==
    /\ <<GenStr(s_Option, s_A), Optional(new_ptr(Boxed(FALSE, StructRef(s_A))))>> \in resolved
    /\ <<GenStr(s_Box, s_A), Boxed(TRUE, StructRef(s_A))>> \in resolved

-----------------------------------------------------------------------------
(* What a pass that returns a document has gone through *)

MatchesProduction(ty) ==
    \/ try_from_rust_str(ty) # None
    \/ ty \in {s_SyncReturnVecU8, s_String}
    \/ \E w \in {s_ZeroCopyBuffer, s_Vec, s_Box, s_Option} : captures(w, ty) # None
    \/ ty \in DOMAIN src_struct_map

NothingUnsupported ==
    /\ Len(result.file.funcs) = Len(src_fns)
    /\ \A k \in 1..Len(src_fns) :
           /\ \A i \in 1..Len(src_fns[k].inputs) :
                  /\ src_fns[k].inputs[i].kind = "Typed"
                  /\ src_fns[k].inputs[i].pat = "Ident"
                  /\ i \notin SinkParams(src_fns[k]) =>
                         WasResolved(type_to_string(src_fns[k].inputs[i].ty))
                  /\ i \in SinkParams(src_fns[k]) => WasResolved(SinkInner(src_fns[k], i))
           /\ SinkParams(src_fns[k]) = {} =>
                  /\ src_fns[k].output.kind = "Type"
                  /\ captures(s_Result, type_to_string(src_fns[k].output.ty)) # None
                  /\ WasResolved(captures(s_Result, type_to_string(src_fns[k].output.ty)).value)
    /\ \A n \in parsing_or_parsed_struct_names :
           /\ src_struct_map[n].fields.kind # "Unit"
           /\ n \in DOMAIN result.file.struct_pool
           /\ \A i \in 1..Len(src_struct_map[n].fields.list) :
                  WasResolved(type_to_string(src_struct_map[n].fields.list[i].ty))
    /\ \A p \in resolved :
           /\ MatchesProduction(p[1])
           /\ ~contains(p[1], s_OptionOption)

C8_State ==
    /\ result.tag = "Ok" => NothingUnsupported
    /\ result.tag = "Panic" => DOMAIN result = {"tag", "msg"} /\ stack # <<>>

(* C8: a pass returns a document only if nothing it went through is        *)
(* unsupported: every parameter is bound by an identifier, every function  *)
(* without StreamSink has a Result-shaped return type, no struct reached   *)
(* is a unit struct, every type string resolved matches a production, and  *)
(* every parameter and every field reached has a resolved type. A panic    *)
(* ends the pass: no document is returned and no further step is taken.    *)

C8_AllOrNothing ==
    /\ []C8_State
    /\ [][result.tag = "Panic" => FALSE]_vars

\* the pass panics in its second function, the first one and a struct being resolved
C8_Witness ==
    /\ result.tag = "Panic"
    /\ Len(funcs) = 1
    /\ struct_pool # <<>>

====
